---- MODULE Spec2Model ----
(***************************************************************************)
(* A model of bot.py: a Telegram bot that recognises YouTube links, asks   *)
(* for a format, downloads with yt-dlp and delivers the file.              *)
(*                                                                         *)
(* Text is modelled as a sequence of tokens.  A token is either a piece of *)
(* a URL that the regular expression names literally, a run of identifier  *)
(* characters, or a separator.  File sizes are byte counts held as a pair  *)
(* (whole KiB, remaining bytes) so that 2 GiB and 2 GiB + 1 byte are both  *)
(* representable.                                                          *)
(***************************************************************************)
EXTENDS Integers, Sequences, FiniteSets, TLC

VARIABLES
    pending_video_urls,  \* dict video_id -> url           (bot.py line 50)
    fs,                  \* the files of the working directory
    pc,                  \* where the update being processed stands
    cur,                 \* the locals of the handler being run
    msgs,                \* what the running/last handler showed to the user
    attempts,            \* the extractor configurations the running/last handler tried
    transports,          \* the uploads the running/last handler attempted
    lastLink,            \* history: video_id -> link text of the latest link message
    sessions,            \* history: video_id -> link the observed chat sent and has
                         \*          not since cancelled or had downloaded
    credentials,         \* API_ID and API_HASH of the environment (lines 29-30)
    progress_message_last_edit_time,  \* dict (chat_id, message_id) -> time (line 47)
    now,                 \* the clock of the event loop, in ticks
    upload,              \* the call of send_*_with_pyrogram being looked at
    edits,               \* the edit calls pyrogram_upload_progress made in that call
    call,                \* a call of a pure function and
    result,              \*   what it returned
    requests,            \* download request -> how far the application got with it
    tmpfiles             \* the files those requests have in the working directory

botVars == <<pending_video_urls, fs, pc, cur, msgs, attempts, transports, lastLink, sessions>>

uploadVars == <<progress_message_last_edit_time, now, upload, edits>>

callVars == <<call, result>>

dispatchVars == <<requests, tmpfiles>>

\* What the handlers of the bot leave alone.
outsideBot == <<credentials, uploadVars, callVars, dispatchVars>>

vars == <<botVars, credentials, uploadVars, callVars, dispatchVars>>

-----------------------------------------------------------------------------
(* Bounds of the model.                                                    *)

MaxFiles == 1      \* files in the working directory
MaxTime == 6       \* ticks of the clock
MaxEdits == 3      \* edit calls followed during one upload
MaxRequests == 4   \* download requests followed through the application

-----------------------------------------------------------------------------
(* Text and the link pattern.                                              *)

SCHEME == "https://"
WWW == "www."
HOST == "youtu.be/"
SPACE == " "

\* The leading run of [\w\-] characters of a token.
WordPrefix(tok) ==
    CASE tok = SCHEME -> "https"
      [] tok = WWW -> "www"
      [] tok = HOST -> "youtu"
      [] tok = SPACE -> ""
      [] OTHER -> tok

\* Whether the token consists of [\w\-] characters only.
IsWord(tok) == tok # "" /\ WordPrefix(tok) = tok

RECURSIVE IdRun(_, _)
\* ([\w\-]+) greedy, from position q of text: the pieces matched.
IdRun(text, q) ==
    IF q > Len(text) THEN <<>>
    ELSE IF IsWord(text[q]) THEN <<text[q]>> \o IdRun(text, q + 1)
    ELSE IF WordPrefix(text[q]) # "" THEN <<WordPrefix(text[q])>>
    ELSE <<>>

\* YOUTUBE_URL_REGEX anchored at position p: the optional scheme, the optional
\* www., the host with its path prefix, then the identifier.
MatchAt(text, p) ==
    LET q1 == IF p <= Len(text) /\ text[p] = SCHEME THEN p + 1 ELSE p
        q2 == IF q1 <= Len(text) /\ text[q1] = WWW THEN q1 + 1 ELSE q1
        hostOk == q2 <= Len(text) /\ text[q2] = HOST
        id == IF hostOk THEN IdRun(text, q2 + 1) ELSE <<>>
    IN  IF hostOk /\ id # <<>>
        THEN [found |-> TRUE, group0 |-> SubSeq(text, p, q2) \o id, group1 |-> id]
        ELSE [found |-> FALSE, group0 |-> <<>>, group1 |-> <<>>]

RECURSIVE SearchFrom(_, _)
SearchFrom(text, p) ==
    IF p > Len(text) THEN [found |-> FALSE, group0 |-> <<>>, group1 |-> <<>>]
    ELSE IF MatchAt(text, p).found THEN MatchAt(text, p)
    ELSE SearchFrom(text, p + 1)

\* re.search(YOUTUBE_URL_REGEX, text): the leftmost match.
ReSearch(text) == SearchFrom(text, 1)

\* The text messages sent to the bot: a bare link, a link with scheme and www.
\* followed by a blank, a link after other words and running into the next
\* word, and three texts without a link.
LinkTexts ==
    { <<HOST, "a">>,
      <<SCHEME, WWW, HOST, "a", SPACE>>,
      <<"a", SPACE, HOST, "b", SCHEME, "a">> }

PlainTexts == {<<SCHEME, "a">>, <<HOST, SPACE, "a">>, <<WWW, SCHEME, HOST>>}

\* The identifiers a keyboard of this bot can carry.
VideoIds == {ReSearch(t).group1 : t \in LinkTexts}

-----------------------------------------------------------------------------
(* Callback data and keyboards.                                            *)

COLON == ":"

Heights == {2160, 1440, 1080, 720, 480, 360, 240, 144}

\* str(height) inside an f-string, and int(parts[2]).
StrOfInt(h) ==
    CASE h = 2160 -> "2160" [] h = 1440 -> "1440" [] h = 1080 -> "1080"
      [] h = 720 -> "720" [] h = 480 -> "480" [] h = 360 -> "360"
      [] h = 240 -> "240" [] h = 144 -> "144"

IntOfStr(s) == CHOOSE h \in Heights : StrOfInt(h) = s

\* f"{kind}:{video_id}"
CallbackData(kind, video_id) == <<kind, COLON>> \o video_id

\* f"quality:{video_id}:{height}"
QualityData(video_id, height) ==
    <<"quality", COLON>> \o video_id \o <<COLON, StrOfInt(height)>>

RECURSIVE Split(_)
\* str.split(":"): the pieces between the colons, each a token sequence.
Split(data) ==
    IF \A k \in 1..Len(data) : data[k] # COLON THEN <<data>>
    ELSE LET k == CHOOSE j \in 1..Len(data) :
                      data[j] = COLON /\ \A m \in 1..(j - 1) : data[m] # COLON
         IN  <<SubSeq(data, 1, k - 1)>> \o Split(SubSeq(data, k + 1, Len(data)))

\* A faulty variant: the test looks for the colon only.
StartsWithAnyKind(data, kind) == Len(data) >= 2 /\ data[2] = COLON

\* query.data.startswith(f"{kind}:")
StartsWith(data, kind) == Len(data) >= 2 /\ data[1] = kind /\ data[2] = COLON

get_info_inline_keyboard == <<<<"show_link_instructions">>>>

get_format_selection_keyboard(video_id) ==
    << CallbackData("download_audio", video_id),
       CallbackData("download_video", video_id),
       CallbackData("cancel", video_id) >>

-----------------------------------------------------------------------------
(* Dictionaries, files and sizes.                                          *)

\* None, and any other falsy string value.
None == <<>>

\* A faulty variant: the lookup ignores the key while anything is pending.
DictGetAny(d, key) ==
    IF DOMAIN d = {} THEN None ELSE d[CHOOSE k \in DOMAIN d : TRUE]

\* dict.get(key): None when the key is absent.
DictGet(d, key) == IF key \in DOMAIN d THEN d[key] ELSE None

\* A faulty variant: the assignment replaces the whole dict.
DictSetAlone(d, key, value) == [k \in {key} |-> value]

\* d[key] = value
DictSet(d, key, value) ==
    [k \in DOMAIN d \cup {key} |-> IF k = key THEN value ELSE d[k]]

\* A faulty variant: the pop empties the dict.
DictPopAll(d, key) == [k \in {} |-> None]

\* dict.pop(key, None)
DictPop(d, key) == [k \in DOMAIN d \ {key} |-> d[k]]

\* The history of link messages, kept for the live sessions only.
Restrict(d, keys) == [k \in DOMAIN d \cap keys |-> d[k]]

\* A byte count: kib * 1024 + b, with b in 0..1023.
Bytes(kib, b) == [kib |-> kib, b |-> b]

\* size > limit, the limit being a whole number of KiB.
GreaterThan(size, limitKiB) ==
    size.kib > limitKiB \/ (size.kib = limitKiB /\ size.b > 0)

TELEGRAM_AUDIO_LIMIT_KIB == 50 * 1024
TELEGRAM_PTB_LIMIT_KIB == 50 * 1024
TELEGRAM_VIDEO_LIMIT_KIB == 2 * 1024 * 1024

\* The file sizes os.path.getsize is taken to report.
Sizes ==
    { Bytes(TELEGRAM_AUDIO_LIMIT_KIB, 0), Bytes(TELEGRAM_AUDIO_LIMIT_KIB, 1),
      Bytes(TELEGRAM_VIDEO_LIMIT_KIB, 0), Bytes(TELEGRAM_VIDEO_LIMIT_KIB, 1) }

INVALID_CHARS == {"<", ">", ":", "\"", "/", "\\", "|", "?", "*"}
SANITIZE_MAX_LENGTH == 200

RECURSIVE Words(_)
\* str.split(): the maximal runs of non-blank characters.
Words(s) ==
    IF s = <<>> THEN <<>>
    ELSE IF Head(s) = SPACE THEN Words(Tail(s))
    ELSE LET n == CHOOSE k \in 1..Len(s) :
                      /\ \A j \in 1..k : s[j] # SPACE
                      /\ (k = Len(s) \/ s[k + 1] = SPACE)
         IN  <<SubSeq(s, 1, n)>> \o Words(SubSeq(s, n + 1, Len(s)))

RECURSIVE Join(_)
\* ' '.join(words)
Join(ws) ==
    IF ws = <<>> THEN <<>>
    ELSE IF Len(ws) = 1 THEN ws[1]
    ELSE ws[1] \o <<SPACE>> \o Join(Tail(ws))

\* str.strip()
Strip(s) == Join(Words(s))

sanitize_filename(title) ==
    LET kept == SelectSeq(title, LAMBDA c : c \notin INVALID_CHARS)
        collapsed == Join(Words(kept))
    IN  IF Len(collapsed) > SANITIZE_MAX_LENGTH
        THEN Strip(SubSeq(collapsed, 1, SANITIZE_MAX_LENGTH))
        ELSE collapsed

\* The titles yt-dlp is taken to report.
Titles == {<<"t", "/", SPACE, SPACE, "u">>}

\* What extract_info returns: None, or an info dict with or without a title.
NoInfo == [present |-> FALSE, hasTitle |-> FALSE, title |-> <<>>]

Infos ==
    {NoInfo, [present |-> TRUE, hasTitle |-> FALSE, title |-> <<>>]}
    \cup {[present |-> TRUE, hasTitle |-> TRUE, title |-> t] : t \in Titles}

\* info.get('title', video_id)
TitleOf(info, video_id) == IF info.hasTitle THEN info.title ELSE video_id

-----------------------------------------------------------------------------
(* The environment: the credentials of the secondary transport, the chats. *)

\* API_ID = os.getenv("API_ID"), API_HASH = os.getenv("API_HASH"): a string,
\* or None when the variable is not set.
Credentials(api_id, api_hash) == [API_ID |-> api_id, API_HASH |-> api_hash]

Configured == Credentials(<<"1", "2">>, <<"h">>)

\* The environments in which API_ID or API_HASH is not configured.
MissingCredentials ==
    { Credentials(None, <<"h">>), Credentials(<<"1", "2">>, None),
      Credentials(None, None) }

\* API_ID is set to something that is not a number.
InvalidCredentials == {Credentials(<<"x">>, <<"h">>)}

DIGITS == {"0", "1", "2", "3", "4", "5", "6", "7", "8", "9"}

\* Whether int(API_ID) returns; it raises ValueError or TypeError otherwise.
IsInt(s) == s # None /\ \A k \in 1..Len(s) : s[k] \in DIGITS

\* A faulty variant: the credentials are not looked at.
NeverNotConfigured(c) == FALSE

\* if not API_ID or not API_HASH
NotConfigured(c) == c.API_ID = None \/ c.API_HASH = None

\* The chat whose sessions are followed, and another chat.
OBSERVED_CHAT == 1
OTHER_CHAT == 2

-----------------------------------------------------------------------------
(* The state of the update being processed.                                *)

NoCur ==
    [ chat |-> 0, data |-> <<>>, video_id |-> <<>>, url |-> None, height |-> 0,
      pm |-> FALSE, i |-> 0, expected |-> None, path |-> None,
      size |-> [kib |-> 0, b |-> 0],
      dlRaised |-> FALSE, raised |-> FALSE, removeFailed |-> FALSE ]

\* A message shown to the user: how ("edit" of the message under the button,
\* or "send" of a new one), which text, which keyboard, and whether the call
\* went through.
Msg(how, text, kb, ok) == [how |-> how, text |-> text, kb |-> kb, ok |-> ok]

NoKeyboard == <<>>

\* The module-level state of the bot and a handler that has not begun.
InitBot ==
    /\ pending_video_urls = [k \in {} |-> None]
    /\ fs = {}
    /\ pc = "idle"
    /\ cur = NoCur
    /\ msgs = <<>>
    /\ attempts = <<>>
    /\ transports = <<>>
    /\ lastLink = [k \in {} |-> None]
    /\ sessions = [k \in {} |-> None]

\* The except clause of button_callback_handler: one more message, whose own
\* failure is swallowed.
HandlerExcept(shown, ok) == Append(shown, Msg("send", "button_error", NoKeyboard, ok))

-----------------------------------------------------------------------------
(* get_available_qualities and the quality keyboard.                       *)

Format(vcodec, height) == [vcodec |-> vcodec, height |-> height]

\* The format lists yt-dlp is taken to report (height 0: no height given).
FormatLists ==
    { <<>>,
      <<Format("none", 0), Format("avc1", 0)>>,
      <<Format("avc1", 358), Format("avc1", 806), Format("none", 0)>>,
      <<Format("avc1", 1610), Format("vp9", 1610), Format("avc1", 128)>> }

QualityOutcomes ==
    {[kind |-> "raise", formats |-> <<>>], [kind |-> "noinfo", formats |-> <<>>]}
    \cup {[kind |-> "info", formats |-> fl] : fl \in FormatLists}

Quality(height, label) == [height |-> height, label |-> label]

get_quality_label(height) ==
    IF height >= 1400
    THEN IF height >= 2000 \/ height >= 1500
         THEN Quality(2160, "2160p 4K")
         ELSE Quality(1440, "1440p 2K")
    ELSE IF height >= 700
    THEN IF height >= 800 THEN Quality(1080, "1080p HD") ELSE Quality(720, "720p HD")
    ELSE IF height >= 350 THEN Quality(480, "480p")
    ELSE IF height >= 250 THEN Quality(360, "360p")
    ELSE IF height >= 170 THEN Quality(240, "240p")
    ELSE Quality(144, "144p")

RECURSIVE InsertDesc(_, _)
\* x placed after the elements of a descending list that are not below it.
InsertDesc(xs, x) ==
    IF xs = <<>> THEN <<x>>
    ELSE IF Head(xs).height >= x.height THEN <<Head(xs)>> \o InsertDesc(Tail(xs), x)
    ELSE <<x>> \o xs

\* A faulty variant: the list is left in the order it came in.
Unsorted(xs) == xs

RECURSIVE SortDesc(_)
\* list.sort(key=height, reverse=True): stable, descending by height.
SortDesc(xs) ==
    IF xs = <<>> THEN <<>>
    ELSE InsertDesc(SortDesc(SubSeq(xs, 1, Len(xs) - 1)), xs[Len(xs)])

RECURSIVE Labelled(_, _)
\* The loop over video_formats: one entry per label not seen before.
Labelled(video_formats, seen_labels) ==
    IF video_formats = <<>> THEN <<>>
    ELSE LET q == get_quality_label(Head(video_formats).height)
         IN  IF q.label \notin seen_labels
             THEN <<q>> \o Labelled(Tail(video_formats), seen_labels \cup {q.label})
             ELSE Labelled(Tail(video_formats), seen_labels)

\* The body of the loop of get_available_qualities for one configuration that
\* returned an info dict.
QualitiesOf(formats) ==
    LET video_formats ==
            SortDesc(SelectSeq(formats, LAMBDA f : f.vcodec # "none" /\ f.height # 0))
    IN  SortDesc(Labelled(video_formats, {}))

\* A faulty variant: nothing is returned when every configuration failed.
NoDefaultQualities == <<>>

DefaultQualities ==
    << Quality(1080, "1080p HD"), Quality(720, "720p HD"),
       Quality(480, "480p"), Quality(360, "360p") >>

QualityConfigs == <<"q_ios_web", "q_android_creator_web", "q_plain">>

\* A faulty variant: any info dict ends the loop.
QualityHitOnAnyInfo(outcomes, k) == outcomes[k].kind = "info"

\* Whether configuration k of ydl_opts_list ends the loop with a result.
QualityHit(outcomes, k) ==
    outcomes[k].kind = "info" /\ QualitiesOf(outcomes[k].formats) # <<>>

\* The configurations get_available_qualities goes through, in order.
QualityTried(outcomes) ==
    IF \E k \in 1..Len(QualityConfigs) : QualityHit(outcomes, k)
    THEN SubSeq(QualityConfigs, 1,
                CHOOSE k \in 1..Len(QualityConfigs) :
                    QualityHit(outcomes, k) /\ \A j \in 1..(k - 1) : ~QualityHit(outcomes, j))
    ELSE QualityConfigs

\* The same, with what each configuration did.
QualityLog(outcomes) ==
    [k \in 1..Len(QualityTried(outcomes)) |->
        [name |-> QualityConfigs[k], kind |-> outcomes[k].kind, mp3 |-> FALSE]]

get_available_qualities(outcomes) ==
    IF \E k \in 1..Len(QualityConfigs) : QualityHit(outcomes, k)
    THEN QualitiesOf(outcomes[Len(QualityTried(outcomes))].formats)
    ELSE DefaultQualities

get_video_quality_keyboard(video_id, qualities) ==
    [k \in 1..Len(qualities) |-> QualityData(video_id, qualities[k].height)]
    \o <<CallbackData("back_to_format", video_id)>>

\* The fallback list of the handler, used when no quality came back.
HandlerDefaultQualities ==
    <<Quality(720, "720p HD"), Quality(480, "480p"), Quality(360, "360p")>>

-----------------------------------------------------------------------------
(* The updates the bot accepts.                                            *)

\* The heights of the quality buttons pressed in the model.
PressedHeights == {1080, 360}

CallbackKinds == {"download_audio", "download_video", "back_to_format", "cancel"}

CallbackInputs ==
    {<<"show_link_instructions">>, <<"noop">>}
    \cup {CallbackData(kind, id) : kind \in CallbackKinds, id \in VideoIds}
    \cup {QualityData(id, h) : id \in VideoIds, h \in PressedHeights}

\* The application is free to run a handler on the next update.
Begin == pc = "idle"

\* The handler returns; the application goes on to the next update.
Finished(shown) ==
    /\ pc' = "done"
    /\ msgs' = shown

\* The application takes the next update.
NextUpdate ==
    /\ pc = "done"
    /\ UNCHANGED outsideBot
    /\ pc' = "idle"
    /\ cur' = NoCur
    /\ msgs' = <<>>
    /\ attempts' = <<>>
    /\ transports' = <<>>
    /\ UNCHANGED <<pending_video_urls, fs, lastLink, sessions>>

\* /start
Start(chat) ==
    /\ Begin
    /\ UNCHANGED outsideBot
    /\ \E ok \in BOOLEAN :
           Finished(<<Msg("send", "welcome", get_info_inline_keyboard, ok)>>)
    /\ cur' = [cur EXCEPT !.chat = chat, !.data = <<"/start">>]
    /\ UNCHANGED <<pending_video_urls, fs, attempts, transports, lastLink, sessions>>

\* A faulty variant: the whole message text is stored, not the matched link.
StoredUrlWholeText(text) == text

\* youtube_url = match.group(0)
StoredUrl(text) == ReSearch(text).group0

\* handle_message, for a text message.
HandleMessage(chat, text) ==
    /\ Begin
    /\ UNCHANGED outsideBot
    /\ cur' = [cur EXCEPT !.chat = chat, !.data = text,
                          !.video_id = ReSearch(text).group1,
                          !.url = IF ReSearch(text).found THEN StoredUrl(text) ELSE None]
    /\ IF ReSearch(text).found
       THEN LET youtube_url == StoredUrl(text)
                video_id == ReSearch(text).group1
            IN  /\ pending_video_urls' = DictSet(pending_video_urls, video_id, youtube_url)
                /\ lastLink' = Restrict(DictSet(lastLink, ReSearch(text).group1,
                                                ReSearch(text).group0),
                                        DOMAIN pending_video_urls')
                /\ sessions' = IF chat = OBSERVED_CHAT
                               THEN DictSet(sessions, ReSearch(text).group1,
                                            ReSearch(text).group0)
                               ELSE sessions
                /\ \E ok \in BOOLEAN :
                       Finished(<<Msg("send", "link_detected",
                                      get_format_selection_keyboard(video_id), ok)>>)
       ELSE /\ \E ok \in BOOLEAN :
                   Finished(<<Msg("send", "send_link_please", get_info_inline_keyboard, ok)>>)
            /\ UNCHANGED <<pending_video_urls, lastLink, sessions>>
    /\ UNCHANGED <<fs, attempts, transports>>

\* query.answer() raises: the except clause reports it.
AnswerFails(chat, data) ==
    /\ Begin
    /\ UNCHANGED outsideBot
    /\ cur' = [cur EXCEPT !.chat = chat, !.data = data, !.raised = TRUE]
    /\ \E ok \in BOOLEAN : Finished(HandlerExcept(<<>>, ok))
    /\ UNCHANGED <<pending_video_urls, fs, attempts, transports, lastLink, sessions>>

\* An edit of the message under the button, then the handler returns; when the
\* edit raises, the except clause of the handler reports it.
EditAndReturn(text, kb) ==
    \E ok, ok2 \in BOOLEAN :
        /\ ok => ok2
        /\ Finished(IF ok THEN <<Msg("edit", text, kb, TRUE)>>
                    ELSE HandlerExcept(<<Msg("edit", text, kb, FALSE)>>, ok2))

\* A faulty variant: a missing entry is not noticed.
SessionAlwaysLive(youtube_url) == FALSE

\* if not youtube_url
SessionExpired(youtube_url) == youtube_url = None

\* The 'Session expired' reply of every branch that needs a live entry.
ReplySessionExpired(chat, data) ==
    /\ cur' = [cur EXCEPT !.chat = chat, !.data = data, !.video_id = Split(data)[2]]
    /\ EditAndReturn("session_expired", NoKeyboard)
    /\ UNCHANGED <<pending_video_urls, fs, attempts, transports, lastLink, sessions>>

\* query.data == "show_link_instructions": the edit, and a new message when
\* the edit is refused for another reason than 'message is not modified'.
ShowLinkInstructions(chat, data) ==
    /\ Begin
    /\ UNCHANGED outsideBot
    /\ data = <<"show_link_instructions">>
    /\ cur' = [cur EXCEPT !.chat = chat, !.data = data]
    /\ \E edit \in {"ok", "not_modified", "refused"}, sendOk, exceptOk \in BOOLEAN :
           /\ (edit # "refused") => sendOk
           /\ sendOk => exceptOk
           /\ LET edited == Msg("edit", "instructions", get_info_inline_keyboard, edit = "ok")
                  sent == Msg("send", "instructions", get_info_inline_keyboard, sendOk)
              IN  Finished(IF edit # "refused" THEN <<edited>>
                           ELSE IF sendOk THEN <<edited, sent>>
                           ELSE HandlerExcept(<<edited, sent>>, exceptOk))
    /\ UNCHANGED <<pending_video_urls, fs, attempts, transports, lastLink, sessions>>

\* query.data.startswith("download_video:"): the quality keyboard.
DownloadVideoCallback(chat, data) ==
    /\ Begin
    /\ UNCHANGED outsideBot
    /\ StartsWith(data, "download_video")
    /\ LET video_id == Split(data)[2]
           youtube_url == DictGet(pending_video_urls, video_id)
       IN  IF SessionExpired(youtube_url)
           THEN ReplySessionExpired(chat, data)
           ELSE /\ cur' = [cur EXCEPT !.chat = chat, !.data = data, !.video_id = video_id,
                                      !.url = youtube_url]
                /\ \E raises \in {"nothing", "fetching", "keyboard"}, exceptOk \in BOOLEAN :
                   \E outcomes \in [1..Len(QualityConfigs) -> QualityOutcomes] :
                       LET qualities == get_available_qualities(outcomes)
                           fetching == Msg("edit", "fetching", NoKeyboard, raises # "fetching")
                           shown == IF qualities # <<>>
                                    THEN Msg("edit", "select_quality",
                                             get_video_quality_keyboard(video_id, qualities),
                                             raises = "nothing")
                                    ELSE Msg("edit", "select_quality_undetected",
                                             get_video_quality_keyboard(
                                                 video_id, HandlerDefaultQualities),
                                             raises = "nothing")
                       IN  /\ (raises = "nothing") => exceptOk
                           /\ (raises = "fetching") => outcomes = [k \in 1..Len(QualityConfigs) |-> [kind |-> "raise", formats |-> <<>>]]
                           /\ attempts' = IF raises = "fetching" THEN <<>>
                                          ELSE QualityLog(outcomes)
                           /\ Finished(CASE raises = "nothing" -> <<fetching, shown>>
                                         [] raises = "fetching" ->
                                                HandlerExcept(<<fetching>>, exceptOk)
                                         [] raises = "keyboard" ->
                                                HandlerExcept(<<fetching, shown>>, exceptOk))
                /\ UNCHANGED <<pending_video_urls, fs, transports, lastLink, sessions>>

\* query.data.startswith("back_to_format:")
BackToFormat(chat, data) ==
    /\ Begin
    /\ UNCHANGED outsideBot
    /\ StartsWith(data, "back_to_format")
    /\ LET video_id == Split(data)[2]
       IN  IF video_id \notin DOMAIN pending_video_urls
           THEN ReplySessionExpired(chat, data)
           ELSE /\ cur' = [cur EXCEPT !.chat = chat, !.data = data, !.video_id = video_id]
                /\ EditAndReturn("link_detected", get_format_selection_keyboard(video_id))
                /\ UNCHANGED <<pending_video_urls, fs, attempts, transports, lastLink, sessions>>

\* query.data.startswith("cancel:")
Cancel(chat, data) ==
    /\ Begin
    /\ UNCHANGED outsideBot
    /\ StartsWith(data, "cancel")
    /\ LET video_id == Split(data)[2]
       IN  /\ cur' = [cur EXCEPT !.chat = chat, !.data = data, !.video_id = video_id]
           /\ pending_video_urls' = DictPop(pending_video_urls, video_id)
           /\ lastLink' = Restrict(lastLink, DOMAIN pending_video_urls')
           /\ sessions' = IF chat = OBSERVED_CHAT THEN DictPop(sessions, video_id)
                          ELSE sessions
           /\ EditAndReturn("welcome", get_info_inline_keyboard)
    /\ UNCHANGED <<fs, attempts, transports>>

\* Any other callback data: only a log line.
UnknownCallback(chat, data) ==
    /\ Begin
    /\ UNCHANGED outsideBot
    /\ data # <<"show_link_instructions">>
    /\ \A kind \in CallbackKinds \cup {"quality"} : ~StartsWith(data, kind)
    /\ cur' = [cur EXCEPT !.chat = chat, !.data = data]
    /\ Finished(<<>>)
    /\ UNCHANGED <<pending_video_urls, fs, attempts, transports, lastLink, sessions>>

-----------------------------------------------------------------------------
(* download_and_convert_youtube.                                           *)

download_strategies == <<"firefox_cookies_tv_client", "basic_fallback">>

\* temp_final_path = f"{video_id}.mp3"
TempMp3(video_id) == video_id \o <<".mp3">>

\* expected_final_path = f"{sanitized_title}.mp3"
TitleMp3(title) == sanitize_filename(title) \o <<".mp3">>

\* "ignoreerrors": False in base_ydl_opts, True in the options of basic_fallback.
IgnoreErrors(i) == download_strategies[i] = "basic_fallback"

\* What one run of yt-dlp does: it returns an info dict or None, or raises a
\* DownloadError whose text is or is not one of the listed known issues, or
\* raises something else; and it has or has not written f"{video_id}.mp3".
\* With ignoreerrors off an error after the file was written is raised, so a
\* run that returns None has written nothing.
StrategyOutcomes(ignoreerrors) ==
    {[kind |-> "returns", info |-> info, wrote |-> w] :
        info \in Infos \ {NoInfo}, w \in BOOLEAN}
    \cup {[kind |-> "returns", info |-> NoInfo, wrote |-> w] :
              w \in IF ignoreerrors THEN BOOLEAN ELSE {FALSE}}
    \cup {[kind |-> k, info |-> NoInfo, wrote |-> w] :
              k \in {"DownloadError_known", "DownloadError_other", "Exception"},
              w \in BOOLEAN}

Step(next, path, expected, files) ==
    [next |-> next, path |-> path, expected |-> expected, fs |-> files]

\* The end of the two except clauses: the title-named file is removed if it
\* exists, and None is returned.  A removal that fails raises out of the function.
FinalCleanup(expected, files, removeOk) ==
    IF expected # None /\ expected \in files
    THEN IF removeOk THEN Step("return", None, expected, files \ {expected})
         ELSE Step("raise", None, expected, files)
    ELSE Step("return", None, expected, files)

\* except yt_dlp.utils.DownloadError: the next strategy is tried only for a
\* known issue of a strategy that is not the last.
OnDownloadError(i, known, expected, files, removeOk) ==
    IF i < Len(download_strategies) /\ known
    THEN Step("continue", None, expected, files)
    ELSE FinalCleanup(expected, files, removeOk)

\* A faulty variant: a general exception ends the sequence at once.
OnExceptionNoRetry(i, expected, files, removeOk) ==
    FinalCleanup(expected, files, removeOk)

\* except Exception
OnException(i, expected, files, removeOk) ==
    IF i < Len(download_strategies)
    THEN Step("continue", None, expected, files)
    ELSE FinalCleanup(expected, files, removeOk)

\* The try body after extract_info returned: the rename of the temporary file
\* and the test for the final file.
OnReturn(i, video_id, expected0, files, info, renameOk, removeOk) ==
    LET temp == TempMp3(video_id)
        expected1 == IF info.present THEN TitleMp3(TitleOf(info, video_id)) ELSE expected0
        renames == temp \in files
        fs2 == IF renames /\ renameOk THEN (files \ {temp}) \cup {expected1} ELSE files
        expected2 == IF renames /\ ~renameOk THEN temp ELSE expected1
    IN  IF renames /\ expected1 = None
        THEN \* os.rename(temp_final_path, None) raises TypeError
             OnException(i, expected1, files, removeOk)
        ELSE IF expected2 # None /\ expected2 \in fs2
        THEN Step("return", expected2, expected2, fs2)
        ELSE IF i < Len(download_strategies)
        THEN Step("continue", None, expected2, fs2)
        ELSE Step("return", None, expected2, fs2)

\* One turn of the loop over download_strategies.
StrategyTurn(i, video_id, expected0, files, o, renameOk, removeOk) ==
    LET fs1 == IF o.wrote THEN files \cup {TempMp3(video_id)} ELSE files
    IN  CASE o.kind = "returns" ->
                 OnReturn(i, video_id, expected0, fs1, o.info, renameOk, removeOk)
          [] o.kind = "DownloadError_known" ->
                 OnDownloadError(i, TRUE, expected0, fs1, removeOk)
          [] o.kind = "DownloadError_other" ->
                 OnDownloadError(i, FALSE, expected0, fs1, removeOk)
          [] o.kind = "Exception" ->
                 OnException(i, expected0, fs1, removeOk)

\* Whether an MP3 file is there when extract_info of this turn is over: the
\* temporary file, or the title-named one.
Mp3Exists(video_id, expected0, files, o) ==
    LET fs1 == IF o.wrote THEN files \cup {TempMp3(video_id)} ELSE files
        expected1 == IF o.kind = "returns" /\ o.info.present
                     THEN TitleMp3(TitleOf(o.info, video_id)) ELSE expected0
    IN  TempMp3(video_id) \in fs1 \/ (expected1 # None /\ expected1 \in fs1)

Attempt(name, kind, mp3) == [name |-> name, kind |-> kind, mp3 |-> mp3]

\* query.data.startswith("download_audio:"), up to the call of
\* download_and_convert_youtube inside process_audio_download.
DownloadAudioCallback(chat, data) ==
    /\ Begin
    /\ UNCHANGED outsideBot
    /\ StartsWith(data, "download_audio")
    /\ LET video_id == Split(data)[2]
           youtube_url == DictGet(pending_video_urls, video_id)
       IN  IF SessionExpired(youtube_url)
           THEN ReplySessionExpired(chat, data)
           ELSE /\ \E editOk \in BOOLEAN :
                       /\ cur' = [cur EXCEPT !.chat = chat, !.data = data, !.video_id = video_id,
                                             !.url = youtube_url, !.pm = editOk, !.i = 1]
                       /\ msgs' = <<Msg("edit", "processing_audio", NoKeyboard, editOk)>>
                /\ pc' = "audio_download"
                /\ UNCHANGED <<pending_video_urls, fs, attempts, transports, lastLink, sessions>>

\* for i, strategy in enumerate(download_strategies): one turn.
TryStrategy ==
    /\ pc = "audio_download"
    /\ UNCHANGED outsideBot
    /\ \E o \in StrategyOutcomes(IgnoreErrors(cur.i)), renameOk, removeOk \in BOOLEAN :
           LET r == StrategyTurn(cur.i, cur.video_id, cur.expected, fs, o, renameOk, removeOk)
           IN  /\ fs' = r.fs
               /\ Cardinality(fs') <= MaxFiles
               /\ attempts' = Append(attempts,
                                     Attempt(download_strategies[cur.i], o.kind,
                                             Mp3Exists(cur.video_id, cur.expected, fs, o)))
               /\ cur' = [cur EXCEPT !.expected = r.expected,
                                     !.path = r.path,
                                     !.i = IF r.next = "continue" THEN @ + 1 ELSE @,
                                     !.dlRaised = (r.next = "raise")]
               /\ pc' = IF r.next = "continue" THEN "audio_download" ELSE "audio_deliver"
    /\ UNCHANGED <<pending_video_urls, msgs, transports, lastLink, sessions>>

-----------------------------------------------------------------------------
(* process_audio_download, after the download.                             *)

\* An attempted upload: by which transport, of which size, whether a Pyrogram
\* client was opened for it, and whether the file was sent.
Transport(via, size, client, ok) ==
    [via |-> via, size |-> size, client |-> client, ok |-> ok]

\* send_audio_with_pyrogram and send_video_with_pyrogram as their caller sees
\* them: False without a client when the credentials are not configured or
\* API_ID is no number; otherwise a client is opened and the result is that
\* of the upload.
PyrogramCall(file_size, uploaded) ==
    IF NotConfigured(credentials) \/ ~IsInt(credentials.API_ID)
    THEN Transport("pyrogram", file_size, FALSE, FALSE)
    ELSE Transport("pyrogram", file_size, TRUE, uploaded)

Outcome(shown, sent, exc) == [shown |-> shown, sent |-> sent, exc |-> exc]

\* A faulty variant: a file of exactly the limit goes to the secondary transport.
AudioUsesPyrogramFromLimit(file_size) ==
    file_size.kib >= TELEGRAM_AUDIO_LIMIT_KIB

\* if file_size > TELEGRAM_AUDIO_LIMIT_BYTES
AudioUsesPyrogram(file_size) == GreaterThan(file_size, TELEGRAM_AUDIO_LIMIT_KIB)

\* The branch for a file above the limit.  statusOk, uploaded and notifyOk are
\* the outcomes of the edit of the status message, of the upload and of the
\* message that follows it.
LargeAudio(pm, file_size, statusOk, uploaded, notifyOk) ==
    LET pyrogram_sent == PyrogramCall(file_size, uploaded)
    IN  Outcome(
            <<Msg("send", IF pyrogram_sent.ok THEN "large_audio_sent"
                          ELSE "failed_large_audio",
                  get_info_inline_keyboard, notifyOk)>>,
            <<pyrogram_sent>>,
            ~notifyOk)

\* The branch for a file within the limit: bot.send_audio inside its own try,
\* whose except clause also catches a failure of the confirmation.
SmallAudio(file_size, uploaded, notifyOk, errorOk) ==
    Outcome(
        (IF uploaded
         THEN <<Msg("send", "audio_sent", get_info_inline_keyboard, notifyOk)>>
         ELSE <<>>)
        \o (IF uploaded /\ notifyOk THEN <<>>
            ELSE <<Msg("send", "error_sending_audio", get_info_inline_keyboard, errorOk)>>),
        <<Transport("ptb", file_size, FALSE, uploaded)>>,
        ~(uploaded /\ notifyOk) /\ ~errorOk)

\* The branch for a download that returned None.
NoAudio(pm, statusOk, notifyOk) ==
    IF pm
    THEN Outcome(<<Msg("edit", "couldnt_process", NoKeyboard, statusOk)>>, <<>>, FALSE)
    ELSE Outcome(<<Msg("send", "couldnt_process", get_info_inline_keyboard, notifyOk)>>,
                 <<>>, ~notifyOk)

\* The try body of process_audio_download after the download.
AudioBody(path, pm, file_size, statusOk, uploaded, notifyOk, errorOk) ==
    IF path # None
    THEN IF AudioUsesPyrogram(file_size)
         THEN LargeAudio(pm, file_size, statusOk, uploaded, notifyOk)
         ELSE SmallAudio(file_size, uploaded, notifyOk, errorOk)
    ELSE NoAudio(pm, statusOk, notifyOk)

\* except Exception of process_*_download: one more message; when that one
\* fails too the exception leaves the function.
ProcessExcept(body, lastOk) ==
    IF body.exc
    THEN [shown |-> Append(body.shown,
                           Msg("send", "error_occurred", get_info_inline_keyboard, lastOk)),
          sent |-> body.sent, raised |-> ~lastOk]
    ELSE [shown |-> body.shown, sent |-> body.sent, raised |-> FALSE]

Raised == Outcome(<<>>, <<>>, TRUE)

\* process_audio_download from the return of the download to its finally clause.
DeliverAudio ==
    /\ pc = "audio_deliver"
    /\ UNCHANGED outsideBot
    /\ \E file_size \in Sizes, statusOk, uploaded, notifyOk, errorOk, lastOk \in BOOLEAN :
           LET body == IF cur.dlRaised THEN Raised
                       ELSE AudioBody(cur.path, cur.pm, file_size, statusOk, uploaded,
                                      notifyOk, errorOk)
               r == ProcessExcept(body, lastOk)
           IN  /\ msgs' = msgs \o r.shown
               /\ transports' = transports \o r.sent
               /\ cur' = [cur EXCEPT !.raised = r.raised, !.i = 0, !.expected = None,
                                     !.size = IF cur.path # None THEN file_size ELSE @]
    /\ pc' = "finally"
    /\ attempts' = <<>>
    /\ UNCHANGED <<pending_video_urls, fs, lastLink, sessions>>

\* A faulty variant: the test for the file is inverted.
RemovesWhenAbsent(path, files) == path # None /\ path \notin files

\* if audio_file_path and os.path.exists(audio_file_path)
Removes(path, files) == path # None /\ path \in files

\* The finally clause of process_*_download, then the rest of the branch of
\* button_callback_handler: the pop of the pending entry, or, when the
\* exception came out of process_*_download, the except clause of the handler.
Finish ==
    /\ pc = "finally"
    /\ UNCHANGED outsideBot
    /\ \E removeOk, exceptOk \in BOOLEAN :
           /\ fs' = IF Removes(cur.path, fs) /\ removeOk
                    THEN fs \ {cur.path} ELSE fs
           /\ cur' = [cur EXCEPT !.removeFailed =
                                     Removes(cur.path, fs) /\ ~removeOk]
           /\ IF cur.raised
              THEN /\ msgs' = HandlerExcept(msgs, exceptOk)
                   /\ UNCHANGED <<pending_video_urls, lastLink, sessions>>
              ELSE /\ msgs' = msgs
                   /\ pending_video_urls' = DictPop(pending_video_urls, cur.video_id)
                   /\ lastLink' = Restrict(lastLink, DOMAIN pending_video_urls')
                   /\ sessions' = IF cur.chat = OBSERVED_CHAT
                                  THEN DictPop(sessions, cur.video_id)
                                  ELSE sessions
    /\ pc' = "done"
    /\ UNCHANGED <<attempts, transports>>

-----------------------------------------------------------------------------
(* download_youtube_video and process_video_download.                      *)

\* The one configuration download_youtube_video runs yt-dlp with.
video_configuration == "default_client"

\* temp_file = f"{base_output_template}.mp4"
TempMp4(video_id) == video_id \o <<"_video", ".mp4">>

\* expected_final_path = f"{sanitized_title}_{height}p.mp4"
TitleMp4(title, height) == sanitize_filename(title) \o <<"_", StrOfInt(height), "p.mp4">>

\* What the one run of yt-dlp does ("ignoreerrors": False).
VideoOutcomes ==
    {[kind |-> "returns", info |-> info, wrote |-> w] :
        info \in Infos \ {NoInfo}, w \in BOOLEAN}
    \cup {[kind |-> "returns", info |-> NoInfo, wrote |-> FALSE]}
    \cup {[kind |-> k, info |-> NoInfo, wrote |-> w] :
              k \in {"DownloadError_other", "Exception"}, w \in BOOLEAN}

\* The whole of download_youtube_video: one run of yt-dlp, the rename of the
\* merged file, and the path of the final file or None.
VideoTurn(video_id, height, files, o, renameOk) ==
    LET temp == TempMp4(video_id)
        fs1 == IF o.wrote THEN files \cup {temp} ELSE files
        expected1 == TitleMp4(TitleOf(o.info, video_id), height)
        renames == temp \in fs1
        fs2 == IF renames /\ renameOk THEN (fs1 \ {temp}) \cup {expected1} ELSE fs1
        expected2 == IF renames /\ ~renameOk THEN temp ELSE expected1
    IN  IF o.kind = "returns" /\ o.info.present
        THEN IF expected2 \in fs2
             THEN Step("return", expected2, expected2, fs2)
             ELSE Step("return", None, expected2, fs2)
        ELSE Step("return", None, None, fs1)

\* query.data.startswith("quality:"), up to the call of download_youtube_video
\* inside process_video_download.
QualityCallback(chat, data) ==
    /\ Begin
    /\ UNCHANGED outsideBot
    /\ StartsWith(data, "quality")
    /\ LET video_id == Split(data)[2]
           height == IntOfStr(Split(data)[3][1])
           youtube_url == DictGet(pending_video_urls, video_id)
       IN  IF SessionExpired(youtube_url)
           THEN ReplySessionExpired(chat, data)
           ELSE /\ \E editOk \in BOOLEAN :
                       /\ cur' = [cur EXCEPT !.chat = chat, !.data = data, !.video_id = video_id,
                                             !.url = youtube_url, !.height = height,
                                             !.pm = editOk, !.i = 1]
                       /\ msgs' = <<Msg("edit", "downloading_video", NoKeyboard, editOk)>>
                /\ pc' = "video_download"
                /\ UNCHANGED <<pending_video_urls, fs, attempts, transports, lastLink, sessions>>

\* A faulty variant: a failed run of yt-dlp is followed by another one.
DownloadVideoRetrying ==
    /\ pc = "video_download"
    /\ UNCHANGED outsideBot
    /\ \E o \in VideoOutcomes, renameOk \in BOOLEAN :
           LET r == VideoTurn(cur.video_id, cur.height, fs, o, renameOk)
               again == r.path = None /\ cur.i < 2
           IN  /\ fs' = r.fs
               /\ Cardinality(fs') <= MaxFiles
               /\ attempts' = Append(attempts,
                                     Attempt(video_configuration, o.kind, r.path # None))
               /\ cur' = [cur EXCEPT !.expected = r.expected, !.path = r.path,
                                     !.i = @ + 1]
               /\ pc' = IF again THEN "video_download" ELSE "video_deliver"
    /\ UNCHANGED <<pending_video_urls, msgs, transports, lastLink, sessions>>

\* download_youtube_video
DownloadVideo ==
    /\ pc = "video_download"
    /\ UNCHANGED outsideBot
    /\ \E o \in VideoOutcomes, renameOk \in BOOLEAN :
           LET r == VideoTurn(cur.video_id, cur.height, fs, o, renameOk)
           IN  /\ fs' = r.fs
               /\ Cardinality(fs') <= MaxFiles
               /\ attempts' = Append(attempts,
                                     Attempt(video_configuration, o.kind, r.path # None))
               /\ cur' = [cur EXCEPT !.expected = r.expected, !.path = r.path]
    /\ pc' = "video_deliver"
    /\ UNCHANGED <<pending_video_urls, msgs, transports, lastLink, sessions>>

\* A faulty variant: no file is too large.
VideoNeverTooLarge(file_size) == FALSE

\* if file_size > TELEGRAM_VIDEO_LIMIT_BYTES
VideoTooLarge(file_size) == GreaterThan(file_size, TELEGRAM_VIDEO_LIMIT_KIB)

\* if file_size > TELEGRAM_PTB_LIMIT_BYTES
VideoUsesPyrogram(file_size) == GreaterThan(file_size, TELEGRAM_PTB_LIMIT_KIB)

LargeVideo(pm, file_size, statusOk, uploaded, notifyOk) ==
    LET pyrogram_sent == PyrogramCall(file_size, uploaded)
    IN  Outcome(
            <<Msg("send", IF pyrogram_sent.ok THEN "video_sent" ELSE "failed_video",
                  get_info_inline_keyboard, notifyOk)>>,
            <<pyrogram_sent>>,
            ~notifyOk)

SmallVideo(file_size, uploaded, notifyOk, errorOk) ==
    Outcome(
        (IF uploaded
         THEN <<Msg("send", "video_sent", get_info_inline_keyboard, notifyOk)>>
         ELSE <<>>)
        \o (IF uploaded /\ notifyOk THEN <<>>
            ELSE <<Msg("send", "error_sending_video", get_info_inline_keyboard, errorOk)>>),
        <<Transport("ptb", file_size, FALSE, uploaded)>>,
        ~(uploaded /\ notifyOk) /\ ~errorOk)

NoVideo(pm, statusOk, notifyOk) ==
    IF pm
    THEN Outcome(<<Msg("edit", "couldnt_download", NoKeyboard, statusOk)>>, <<>>, FALSE)
    ELSE Outcome(<<Msg("send", "couldnt_download", get_info_inline_keyboard, notifyOk)>>,
                 <<>>, ~notifyOk)

\* The try body of process_video_download after the download.
VideoBody(path, pm, file_size, statusOk, uploaded, notifyOk, errorOk) ==
    IF path # None
    THEN IF VideoTooLarge(file_size)
         THEN Outcome(<<Msg("send", "video_too_large", get_info_inline_keyboard, notifyOk)>>,
                      <<>>, ~notifyOk)
         ELSE IF VideoUsesPyrogram(file_size)
         THEN LargeVideo(pm, file_size, statusOk, uploaded, notifyOk)
         ELSE SmallVideo(file_size, uploaded, notifyOk, errorOk)
    ELSE NoVideo(pm, statusOk, notifyOk)

\* process_video_download from the return of the download to its finally clause.
DeliverVideo ==
    /\ pc = "video_deliver"
    /\ UNCHANGED outsideBot
    /\ \E file_size \in Sizes, statusOk, uploaded, notifyOk, errorOk, lastOk \in BOOLEAN :
           LET body == VideoBody(cur.path, cur.pm, file_size, statusOk, uploaded,
                                 notifyOk, errorOk)
               r == ProcessExcept(body, lastOk)
           IN  /\ msgs' = msgs \o r.shown
               /\ transports' = transports \o r.sent
               /\ cur' = [cur EXCEPT !.raised = r.raised, !.i = 0, !.expected = None,
                                     !.size = IF cur.path # None THEN file_size ELSE @]
    /\ pc' = "finally"
    /\ attempts' = <<>>
    /\ UNCHANGED <<pending_video_urls, fs, lastLink, sessions>>

-----------------------------------------------------------------------------

(* send_audio_with_pyrogram, send_video_with_pyrogram and the progress       *)
(* callback, looked at call by call.                                       *)

\* 1.0 second, in ticks of half a second.
ONE_SECOND == 2

\* The messages whose text shows the progress.
MessageIds == {"m1", "m2"}

\* progress_args_tuple[0:2] when the processing message is there, else None.
ProgressKeys == {None} \cup {<<OBSERVED_CHAT, m>> : m \in MessageIds}

NoUpload == [fn |-> "", key |-> None, phase |-> "none", result |-> ""]

InitUpload ==
    /\ progress_message_last_edit_time = [k \in {} |-> 0]
    /\ now = 0
    /\ upload = NoUpload
    /\ edits = <<>>

\* The start of send_audio_with_pyrogram or send_video_with_pyrogram up to the
\* opening of the client: the test of the credentials and int(API_ID), each
\* of which makes the function return False at once.
BeginUpload(fn, key) ==
    /\ upload.phase \in {"none", "returned"}
    /\ edits' = <<>>
    /\ upload' =
           IF NotConfigured(credentials)
           THEN [fn |-> fn, key |-> key, phase |-> "returned", result |-> "not_configured"]
           ELSE IF ~IsInt(credentials.API_ID)
           THEN [fn |-> fn, key |-> key, phase |-> "returned", result |-> "invalid_api_id"]
           ELSE [fn |-> fn, key |-> key, phase |-> "sending", result |-> ""]
    /\ UNCHANGED <<progress_message_last_edit_time, now, botVars, credentials, callVars, dispatchVars>>

SendAudioWithPyrogram(key) == BeginUpload("audio", key)

SendVideoWithPyrogram(key) == BeginUpload("video", key)

\* time passes
Tick ==
    /\ now < MaxTime
    /\ now' = now + 1
    /\ UNCHANGED <<progress_message_last_edit_time, upload, edits, botVars,
                   credentials, callVars, dispatchVars>>

\* progress_message_last_edit_time.get((chat_id, message_id), 0)
LastEditTime(key) ==
    IF key \in DOMAIN progress_message_last_edit_time
    THEN progress_message_last_edit_time[key] ELSE 0

\* if now - last_edit_time > 1.0
EditDue(last_edit_time) == now - last_edit_time > ONE_SECOND

\* pyrogram_upload_progress, called by the client during the upload: the edit
\* goes through, or is refused as 'not modified' or otherwise, or raises
\* something else; only an edit that went through is recorded.
PyrogramUploadProgress ==
    /\ upload.phase = "sending"
    /\ upload.key # None
    /\ Len(edits) < MaxEdits
    /\ EditDue(LastEditTime(upload.key))
    /\ \E outcome \in {"ok", "not_modified", "bad_request", "exception"} :
           /\ edits' = Append(edits, [at |-> now, outcome |-> outcome])
           /\ progress_message_last_edit_time' =
                  IF outcome = "ok"
                  THEN DictSet(progress_message_last_edit_time, upload.key, now)
                  ELSE progress_message_last_edit_time
    /\ UNCHANGED <<now, upload, botVars, credentials, callVars, dispatchVars>>

\* A faulty variant: the entry is dropped after a success only.
PopsAfterSuccessOnly(fn, res) == res = "sent"

\* Whether the function pops its entry before it returns with this result:
\* send_audio_with_pyrogram on each of its three ways out of the client,
\* send_video_with_pyrogram only after a success.
PopsEntry(fn, res) == fn = "audio" \/ res = "sent"

\* The end of the upload: sent, FloodWait, or another exception.
EndUpload ==
    /\ upload.phase = "sending"
    /\ \E res \in {"sent", "FloodWait", "error"} :
           /\ upload' = [upload EXCEPT !.phase = "returned", !.result = res]
           /\ progress_message_last_edit_time' =
                  IF upload.key # None /\ PopsEntry(upload.fn, res)
                  THEN DictPop(progress_message_last_edit_time, upload.key)
                  ELSE progress_message_last_edit_time
    /\ UNCHANGED <<now, edits, botVars, credentials, callVars, dispatchVars>>

UploadNext ==
    \/ \E key \in ProgressKeys : SendAudioWithPyrogram(key)
    \/ \E key \in ProgressKeys : SendVideoWithPyrogram(key)
    \/ PyrogramUploadProgress
    \/ EndUpload
    \/ Tick

-----------------------------------------------------------------------------
(* get_quality_label and the format download_youtube_video asks for, as    *)
(* functions of their arguments.                                           *)

\* The actual heights the comments of the source give for the tiers.
ActualHeights == {128, 178, 268, 358, 536, 806, 1074, 1610}

LARGEST_ACTUAL_HEIGHT == 1610

\* height_map.get(height, height)
height_map(height) ==
    CASE height = 2160 -> 1400
      [] height = 1440 -> 1000
      [] height = 1080 -> 700
      [] height = 720 -> 500
      [] height = 480 -> 320
      [] height = 360 -> 220
      [] height = 240 -> 150
      [] height = 144 -> 100
      [] OTHER -> height

Max(S) == CHOOSE x \in S : \A y \in S : y <= x

\* The video format "bestvideo[height>=T]+bestaudio/bestvideo+bestaudio/best"
\* asks for among the given heights: the best of those at or above T, else
\* the best there is; 0 when there is none.
RequestedFormat(height, available) ==
    LET actual_height == height_map(height)
        atLeast == {h \in available : h >= actual_height}
    IN  IF atLeast # {} THEN Max(atLeast)
        ELSE IF available # {} THEN Max(available)
        ELSE 0

NoResult == [height |-> 0, label |-> ""]

\* The heights a format that passes 'f.get("height")' can have, up to the
\* largest actual height of the comments.
LabelHeights == 1..LARGEST_ACTUAL_HEIGHT

LabelCalls ==
    {[fn |-> "get_quality_label", height |-> h, available |-> {}] :
        h \in LabelHeights}

FormatCalls ==
    {[fn |-> "download_youtube_video", height |-> h, available |-> a] :
        h \in Heights, a \in SUBSET ActualHeights}

InitCall ==
    /\ call = [fn |-> "", height |-> 0, available |-> {}]
    /\ result = NoResult

CallGetQualityLabel ==
    /\ call.fn = "get_quality_label"
    /\ result = NoResult
    /\ result' = get_quality_label(call.height)
    /\ UNCHANGED <<call, botVars, credentials, uploadVars, dispatchVars>>

\* The format download_youtube_video asks yt-dlp for; the label is the one the
\* quality keyboard would give that format.
CallRequestedFormat ==
    /\ call.fn = "download_youtube_video"
    /\ result = NoResult
    /\ LET h == RequestedFormat(call.height, call.available)
       IN  result' = [height |-> h, label |-> get_quality_label(h).label]
    /\ UNCHANGED <<call, botVars, credentials, uploadVars, dispatchVars>>

RECURSIVE Ascending(_)
\* The formats of the given heights, lowest first, as one list of formats.
Ascending(heights) ==
    IF heights = {} THEN <<>>
    ELSE LET h == CHOOSE x \in heights : \A y \in heights : x <= y
         IN  <<Format("avc1", h)>> \o Ascending(heights \ {h})

\* A height below every threshold, and a second height of the 1080p tier.
OtherHeights == {90, 1000}

\* The calls of get_available_qualities: the three configurations with the
\* outcomes of the model, and a first configuration that reports the formats
\* of any set of heights.
QualityCalls ==
    {[fn |-> "get_available_qualities", outcomes |-> o] :
        o \in [1..Len(QualityConfigs) -> QualityOutcomes]}
    \cup {[fn |-> "get_available_qualities",
           outcomes |-> [k \in 1..Len(QualityConfigs) |->
                            [kind |-> "info", formats |-> Ascending(S)]]] :
              S \in SUBSET (ActualHeights \cup OtherHeights)}

\* get_available_qualities, and the keyboard the handler builds from its list.
CallGetAvailableQualities ==
    /\ call.fn = "get_available_qualities"
    /\ result = NoResult
    /\ LET qualities == get_available_qualities(call.outcomes)
       IN  result' = [qualities |-> qualities,
                      tried |-> QualityTried(call.outcomes),
                      keyboard |-> get_video_quality_keyboard(<<"a">>, qualities)]
    /\ UNCHANGED <<call, botVars, credentials, uploadVars, dispatchVars>>

CallNext ==
    \/ CallGetQualityLabel
    \/ CallRequestedFormat
    \/ CallGetAvailableQualities

-----------------------------------------------------------------------------
(* The application of main and the download requests it hands to the       *)
(* handler: which of them run at the same time, and what they do to the    *)
(* files they share.                                                       *)

\* A faulty variant: the application is built with concurrent_updates(True).
ConcurrentUpdatesOn == TRUE

\* ApplicationBuilder().token(...)...build(): concurrent_updates is not set.
concurrent_updates == FALSE

\* The updates the application processes at the same time: one, unless
\* concurrent_updates is set, which allows 256.
max_concurrent_updates == IF concurrent_updates THEN 256 ELSE 1

\* The download requests: all for the same identifier, the odd ones for
\* audio, the even ones for video.
Requests == 1..MaxRequests

REQUESTED_ID == <<"a">>
REQUESTED_HEIGHT == 720

IsAudio(r) == r % 2 = 1

\* The temporary path yt-dlp writes for the request.
TempPath(r) == IF IsAudio(r) THEN TempMp3(REQUESTED_ID) ELSE TempMp4(REQUESTED_ID)

\* The title-named path it is renamed to (the title defaults to the identifier).
FinalPath(r) ==
    IF IsAudio(r) THEN TitleMp3(REQUESTED_ID)
    ELSE TitleMp4(REQUESTED_ID, REQUESTED_HEIGHT)

\* The handler of the request is between its start and its return.
InHandler(r) == requests[r] \in {"downloading", "sending", "cleanup"}

InitDispatch ==
    /\ requests = [r \in Requests |-> "waiting"]
    /\ tmpfiles = {}

\* The user presses the button: the update is in the queue of the application.
Arrive(r) ==
    /\ requests[r] = "waiting"
    /\ requests' = [requests EXCEPT ![r] = "queued"]
    /\ UNCHANGED <<tmpfiles, botVars, credentials, uploadVars, callVars>>

\* The application takes the update and runs the handler, which calls the
\* downloader: yt-dlp writes the temporary file.
Dispatch(r) ==
    /\ requests[r] = "queued"
    /\ Cardinality({q \in Requests : InHandler(q)}) < max_concurrent_updates
    /\ requests' = [requests EXCEPT ![r] = "downloading"]
    /\ tmpfiles' = tmpfiles \cup {TempPath(r)}
    /\ UNCHANGED <<botVars, credentials, uploadVars, callVars>>

\* The download is over: the temporary file is renamed, the upload begins.
RenameAndSend(r) ==
    /\ requests[r] = "downloading"
    /\ requests' = [requests EXCEPT ![r] = "sending"]
    /\ tmpfiles' = IF TempPath(r) \in tmpfiles
                   THEN (tmpfiles \ {TempPath(r)}) \cup {FinalPath(r)}
                   ELSE tmpfiles
    /\ UNCHANGED <<botVars, credentials, uploadVars, callVars>>

\* The upload is over.
Sent(r) ==
    /\ requests[r] = "sending"
    /\ requests' = [requests EXCEPT ![r] = "cleanup"]
    /\ UNCHANGED <<tmpfiles, botVars, credentials, uploadVars, callVars>>

\* The finally clause removes the file; the handler returns.
Cleanup(r) ==
    /\ requests[r] = "cleanup"
    /\ requests' = [requests EXCEPT ![r] = "returned"]
    /\ tmpfiles' = tmpfiles \ {FinalPath(r)}
    /\ UNCHANGED <<botVars, credentials, uploadVars, callVars>>

DispatchNext ==
    \/ \E r \in Requests : Arrive(r)
    \/ \E r \in Requests : Dispatch(r)
    \/ \E r \in Requests : RenameAndSend(r)
    \/ \E r \in Requests : Sent(r)
    \/ \E r \in Requests : Cleanup(r)

-----------------------------------------------------------------------------
(* The specifications.                                                     *)

\* The bot with its credentials configured.
Init ==
    /\ InitBot
    /\ credentials = Configured
    /\ InitUpload
    /\ InitCall
    /\ InitDispatch

\* The updates one chat can send.
Update(chat) ==
    \/ Start(chat)
    \/ \E text \in LinkTexts \cup PlainTexts : HandleMessage(chat, text)
    \/ \E data \in CallbackInputs : AnswerFails(chat, data)
    \/ \E data \in CallbackInputs : ShowLinkInstructions(chat, data)
    \/ \E data \in CallbackInputs : DownloadAudioCallback(chat, data)
    \/ \E data \in CallbackInputs : DownloadVideoCallback(chat, data)
    \/ \E data \in CallbackInputs : QualityCallback(chat, data)
    \/ \E data \in CallbackInputs : BackToFormat(chat, data)
    \/ \E data \in CallbackInputs : Cancel(chat, data)
    \/ \E data \in CallbackInputs : UnknownCallback(chat, data)

\* The steps of a handler that has begun a download.
HandlerStep ==
    \/ TryStrategy
    \/ DeliverAudio
    \/ DownloadVideo
    \/ DeliverVideo
    \/ Finish
    \/ NextUpdate

\* The bot used from one chat.
Next ==
    \/ Update(OBSERVED_CHAT)
    \/ HandlerStep

Spec == Init /\ [][Next]_vars

\* A handler that has begun goes on to its end: the application runs one
\* handler at a time and each of its awaits returns.
FairSpec == Spec /\ WF_vars(HandlerStep)

\* The bot started without API_ID or without API_HASH.
CredInit ==
    /\ InitBot
    /\ credentials \in MissingCredentials
    /\ InitUpload
    /\ InitCall
    /\ InitDispatch

CredSpec == CredInit /\ [][Next]_vars

\* The updates of a chat that write pending_video_urls within one handler
\* step: a link and a cancel.
WritingUpdate(chat) ==
    \/ \E text \in LinkTexts : HandleMessage(chat, text)
    \/ \E data \in CallbackInputs : Cancel(chat, data)

\* The bot used from two chats.
ChatNext ==
    \/ Update(OBSERVED_CHAT)
    \/ WritingUpdate(OTHER_CHAT)
    \/ HandlerStep

ChatSpec == Init /\ [][ChatNext]_vars

\* The application with its queue of download requests.
DispatchSpec == Init /\ [][DispatchNext]_vars

\* The uploads through the secondary transport, in any environment.
UploadInit ==
    /\ InitBot
    /\ credentials \in {Configured} \cup MissingCredentials \cup InvalidCredentials
    /\ InitUpload
    /\ InitCall
    /\ InitDispatch

UploadSpec == UploadInit /\ [][UploadNext]_vars

\* The calls of the two functions of the quality selection.
CallInit ==
    /\ InitBot
    /\ credentials = Configured
    /\ InitUpload
    /\ InitDispatch
    /\ call \in LabelCalls \cup FormatCalls \cup QualityCalls
    /\ result = NoResult

CallSpec == CallInit /\ [][CallNext]_vars

-----------------------------------------------------------------------------
(* Properties.                                                             *)

Names(log) == [k \in 1..Len(log) |-> log[k].name]

IsPrefix(s, t) == Len(s) <= Len(t) /\ s = SubSeq(t, 1, Len(s))

\* The handler being run was started by a callback of this kind.
RunsCallback(kind) == StartsWith(cur.data, kind)

\* The handler being run found a pending entry and went on to a download.
RunsDownload ==
    (RunsCallback("download_audio") \/ RunsCallback("quality")) /\ cur.url # None

\* file_size > 50 MiB and file_size > 2 GiB, in bytes.
OverFiftyMiB(size) == size.kib > 51200 \/ (size.kib = 51200 /\ size.b >= 1)
OverTwoGiB(size) == size.kib > 2097152 \/ (size.kib = 2097152 /\ size.b >= 1)

\* download_and_convert_youtube has returned None.
AudioReturnedNone == pc = "audio_deliver" /\ cur.path = None /\ ~cur.dlRaised

\* C1: download_and_convert_youtube tries its strategies in the listed order
\* and returns None only after every strategy of the list has been attempted,
\* whatever kind of failure each one produced.
C1_NoneOnlyAfterAllStrategies ==
    /\ (pc \in {"audio_download", "audio_deliver"}) =>
           IsPrefix(Names(attempts), download_strategies)
    /\ AudioReturnedNone => Names(attempts) = download_strategies

\* C2: for every audio file a download produced, process_audio_download
\* attempts exactly one transport: the primary one if and only if the file is
\* at most 50 MiB, the secondary one if and only if it is above 50 MiB.
C2_OneTransportByThreshold ==
    (pc \in {"finally", "done"} /\ RunsCallback("download_audio") /\ cur.url # None) =>
        IF cur.path # None
        THEN /\ Len(transports) = 1
             /\ transports[1].via \in {"ptb", "pyrogram"}
             /\ (transports[1].via = "ptb") <=> ~OverFiftyMiB(transports[1].size)
             /\ (transports[1].via = "pyrogram") <=> OverFiftyMiB(transports[1].size)
        ELSE transports = <<>>

\* C2, its case: an audio file of exactly 50 MiB went to the primary transport.
C2_Witness ==
    /\ pc = "done" /\ RunsCallback("download_audio") /\ cur.path # None
    /\ Len(transports) = 1
    /\ transports[1] = Transport("ptb", Bytes(51200, 0), FALSE, TRUE)

\* C3: for every delivery, audio or video, the secondary transport is attempted
\* only for files above 50 MiB and no larger than 2 GiB.
C3_PyrogramOnlyUpToTwoGiB ==
    \A k \in 1..Len(transports) :
        transports[k].via = "pyrogram" =>
            OverFiftyMiB(transports[k].size) /\ ~OverTwoGiB(transports[k].size)

\* C4: after button_callback_handler has handled a download_audio or quality
\* callback whose identifier had a pending entry, pending_video_urls has no
\* entry for that identifier, whatever the outcome.
C4_EntryGoneAfterDownload ==
    (pc = "done" /\ RunsDownload) => cur.video_id \notin DOMAIN pending_video_urls

NeedsSession(data) ==
    \E kind \in {"download_audio", "download_video", "quality", "back_to_format"} :
        StartsWith(data, kind)

C5_Step ==
    (/\ pc = "idle" /\ pc' # "idle"
     /\ NeedsSession(cur'.data)
     /\ Split(cur'.data)[2] \notin DOMAIN pending_video_urls)
    => /\ pc' = "done"
       /\ attempts' = <<>>
       /\ transports' = <<>>
       /\ pending_video_urls' = pending_video_urls
       /\ fs' = fs
       /\ ~cur'.raised =>
              /\ msgs' # <<>>
              /\ msgs'[1].how = "edit" /\ msgs'[1].text = "session_expired"
              /\ \A k \in 2..Len(msgs') : msgs'[k].text = "button_error"

\* C5: a download_audio, download_video, quality or back_to_format callback
\* whose identifier has no pending entry starts no quality fetch and no
\* download, sends no file and leaves pending_video_urls (and the files)
\* unchanged; once query.answer() went through, what it shows is the
\* 'Session expired' text.
C5_SessionExpired == [][C5_Step]_vars

\* C5, its case: a quality callback without a pending entry was answered with
\* the 'Session expired' text.
C5_Witness ==
    /\ pc = "done" /\ RunsCallback("quality") /\ cur.url = None
    /\ msgs = <<Msg("edit", "session_expired", NoKeyboard, TRUE)>>

C6_Step ==
    (pc = "idle" /\ pc' # "idle" /\ cur'.data \in LinkTexts)
    => LET m == ReSearch(cur'.data)
       IN  /\ m.found
           /\ DOMAIN pending_video_urls' = DOMAIN pending_video_urls \cup {m.group1}
           /\ pending_video_urls'[m.group1] = m.group0
           /\ \A k \in DOMAIN pending_video_urls \ {m.group1} :
                  pending_video_urls'[k] = pending_video_urls[k]
           /\ pc' = "done"
           /\ Len(msgs') = 1
           /\ msgs'[1].how = "send" /\ msgs'[1].text = "link_detected"
           /\ Len(msgs'[1].kb) = 3
           /\ msgs'[1].kb[1][1] = "download_audio"
           /\ msgs'[1].kb[2][1] = "download_video"
           /\ msgs'[1].kb[3][1] = "cancel"
           /\ \A b \in 1..3 :
                  Len(Split(msgs'[1].kb[b])) = 2 /\ Split(msgs'[1].kb[b])[2] = m.group1

\* C6: handle_message, given a text with a recognised link, sets
\* pending_video_urls[id] to the matched link text, changes no other entry and
\* replies with the format keyboard whose three buttons carry that id.
C6_LinkStored == [][C6_Step]_vars

\* C6, its case: the link inside 'a youtu.be/bhttps://a' was stored under the
\* identifier 'bhttps' while the entry of identifier 'a' stayed as it was.
C6_Witness ==
    /\ pc = "done"
    /\ cur.data = <<"a", SPACE, HOST, "b", SCHEME, "a">>
    /\ DOMAIN pending_video_urls = {<<"a">>, <<"b", "https">>}
    /\ pending_video_urls[<<"b", "https">>] = <<HOST, "b", "https">>
    /\ pending_video_urls[<<"a">>] = <<SCHEME, WWW, HOST, "a">>

\* C7: the URL handed to the downloader for a download_audio or quality
\* callback is the value stored in pending_video_urls for the identifier of
\* the callback, which is the link of the latest link message with that
\* identifier, and it is a link to that identifier.
C7_DownloadUsesStoredUrl ==
    (pc \in {"audio_download", "video_download"}) =>
        /\ cur.video_id = Split(cur.data)[2]
        /\ cur.video_id \in DOMAIN pending_video_urls
        /\ cur.url = pending_video_urls[cur.video_id]
        /\ cur.video_id \in DOMAIN lastLink
        /\ cur.url = lastLink[cur.video_id]
        /\ ReSearch(cur.url).found
        /\ ReSearch(cur.url).group1 = cur.video_id

\* C7, its case: a download for identifier 'a' runs on the second link sent
\* for it while another identifier is pending too.
C7_Witness ==
    /\ pc = "video_download"
    /\ cur.video_id = <<"a">>
    /\ cur.url = <<SCHEME, WWW, HOST, "a">>
    /\ <<"b", "https">> \in DOMAIN pending_video_urls

\* C8: when process_audio_download or process_video_download has finished, by
\* any path, the file the downloader returned is no longer on disk, provided
\* its removal did not fail.
C8_ArtifactRemoved ==
    (pc = "done" /\ RunsDownload /\ cur.path # None /\ ~cur.removeFailed) =>
        cur.path \notin fs

\* C8, its case: a download whose upload failed and whose error reports all
\* failed has finished, and its file is gone.
C8_Witness ==
    /\ pc = "done" /\ RunsDownload /\ cur.path # None /\ ~cur.removeFailed
    /\ cur.raised
    /\ transports # <<>> /\ ~transports[1].ok
    /\ cur.path \notin fs

\* C9: the first strategy after whose run an MP3 file exists ends the
\* sequence: the function returns the path of an existing file at once and no
\* later strategy is attempted.
C9_FirstMp3EndsSequence ==
    (pc \in {"audio_download", "audio_deliver"}) =>
        \A k \in 1..Len(attempts) :
            (attempts[k].kind = "returns" /\ attempts[k].mp3) =>
                /\ k = Len(attempts)
                /\ pc = "audio_deliver"
                /\ cur.path # None
                /\ cur.path \in fs

\* C10 as stated: download_youtube_video returns None only after several
\* configurations have been tried in sequence.
C10_VideoSeveralConfigurations ==
    (pc = "video_deliver" /\ cur.path = None) => Len(attempts) > 1

\* C10 as amended: download_youtube_video runs yt-dlp with one configuration:
\* whatever it returns, None included, it returns after exactly one attempt.
C10_VideoSingleAttempt ==
    (pc = "video_deliver") => Names(attempts) = <<video_configuration>>

\* C10, its case: download_youtube_video returned None after one attempt.
C10_Witness ==
    /\ pc = "video_deliver" /\ cur.path = None
    /\ Len(attempts) = 1 /\ attempts[1].kind = "DownloadError_other"

\* C11: a video file above 2 GiB is uploaded by neither transport: the user
\* is sent the 'too large' notice and no success confirmation.
C11_TooLargeVideoNotUploaded ==
    (/\ pc \in {"finally", "done"} /\ RunsCallback("quality")
     /\ cur.path # None /\ OverTwoGiB(cur.size))
    => /\ transports = <<>>
       /\ Len(msgs) >= 2
       /\ msgs[2].how = "send" /\ msgs[2].text = "video_too_large"
       /\ \A k \in 1..Len(msgs) : msgs[k].text # "video_sent"

\* C11, its case: a video of 2 GiB + 1 byte was downloaded and the notice went
\* through.
C11_Witness ==
    /\ pc = "done" /\ RunsCallback("quality") /\ cur.path # None
    /\ cur.size = Bytes(TELEGRAM_VIDEO_LIMIT_KIB, 1)
    /\ Len(msgs) = 2 /\ msgs[2] = Msg("send", "video_too_large", get_info_inline_keyboard, TRUE)
    /\ transports = <<>>

\* C12: with API_ID or API_HASH not configured, a call of send_audio_with_pyrogram
\* or send_video_with_pyrogram opens no client and sends nothing, the user is
\* sent the failure notice and no success confirmation, and a file of at most
\* 50 MiB still goes to the primary transport.
C12_CredentialGated ==
    (credentials \in MissingCredentials /\ pc \in {"finally", "done"} /\ RunsDownload) =>
        /\ \A k \in 1..Len(transports) :
               transports[k].via = "pyrogram" =>
                   /\ ~transports[k].client /\ ~transports[k].ok
                   /\ \E m \in 1..Len(msgs) :
                          /\ msgs[m].how = "send"
                          /\ msgs[m].text \in {"failed_large_audio", "failed_video"}
                   /\ \A m \in 1..Len(msgs) :
                          msgs[m].text \notin {"large_audio_sent", "video_sent"}
        /\ (cur.path # None /\ ~OverFiftyMiB(cur.size)) =>
               /\ Len(transports) = 1
               /\ transports[1].via = "ptb"

\* C12, its case: without API_HASH, an audio file of 50 MiB + 1 byte was handed
\* to send_audio_with_pyrogram, which opened no client, and the user was sent
\* the failure notice.
C12_Witness ==
    /\ credentials = Credentials(<<"1", "2">>, None)
    /\ pc = "done" /\ RunsCallback("download_audio")
    /\ transports = <<Transport("pyrogram", Bytes(TELEGRAM_AUDIO_LIMIT_KIB, 1), FALSE, FALSE)>>
    /\ Len(msgs) = 2
    /\ msgs[2] = Msg("send", "failed_large_audio", get_info_inline_keyboard, TRUE)

\* C13: during one upload, any two edit calls pyrogram_upload_progress makes
\* on the status message are more than 1.0 second apart, a failed earlier
\* call included.
C13_EditsMoreThanASecondApart ==
    \A i, j \in 1..Len(edits) :
        i < j => edits[j].at - edits[i].at > ONE_SECOND

\* C14: after send_audio_with_pyrogram has returned from an upload (sent,
\* FloodWait or another error), progress_message_last_edit_time has no entry
\* for the (chat_id, message_id) of that upload.
C14_NoEntryAfterAudioUpload ==
    (/\ upload.fn = "audio" /\ upload.phase = "returned"
     /\ upload.result \in {"sent", "FloodWait", "error"}
     /\ upload.key # None)
    => upload.key \notin DOMAIN progress_message_last_edit_time

\* C14, its case: an audio upload during which an edit went through, so that
\* an entry was written, ended with FloodWait.
C14_Witness ==
    /\ upload.fn = "audio" /\ upload.phase = "returned"
    /\ upload.result = "FloodWait"
    /\ upload.key # None
    /\ \E k \in 1..Len(edits) : edits[k].outcome = "ok"
    /\ upload.key \notin DOMAIN progress_message_last_edit_time

\* C15: every entry added to pending_video_urls is eventually removed: no
\* identifier stays in the mapping forever.
C15_EveryEntryEventuallyRemoved ==
    \A id \in VideoIds :
        (id \in DOMAIN pending_video_urls) ~> (id \notin DOMAIN pending_video_urls)

\* C16: when download_and_convert_youtube returns None, neither the temporary
\* '<video_id>.mp3' nor the title-named MP3 of an attempted strategy exists.
C16_NoFileLeftOnNone ==
    AudioReturnedNone =>
        /\ TempMp3(cur.video_id) \notin fs
        /\ cur.expected # None => cur.expected \notin fs

\* The first piece of the data of an update.
KindOf(data) == IF data = <<>> THEN "" ELSE data[1]

C17_Step ==
    /\ (pc = "idle" /\ pc' # "idle" /\ KindOf(cur'.data) = "download_video") =>
           /\ pc' = "done"
           /\ pending_video_urls' = pending_video_urls
           /\ fs' = fs
           /\ transports' = <<>>
           /\ \A k \in 1..Len(msgs') :
                  msgs'[k].text \in {"session_expired", "fetching", "select_quality",
                                     "select_quality_undetected", "button_error"}
           /\ (/\ Split(cur'.data)[2] \in DOMAIN pending_video_urls
               /\ ~cur'.raised
               /\ \A k \in 1..Len(msgs') : msgs'[k].ok)
              => /\ Len(msgs') = 2
                 /\ msgs'[2].text \in {"select_quality", "select_quality_undetected"}
                 /\ \A b \in 1..(Len(msgs'[2].kb) - 1) :
                        KindOf(msgs'[2].kb[b]) = "quality"
    /\ (pc # "video_download" /\ pc' = "video_download") =>
           /\ pc = "idle"
           /\ KindOf(cur'.data) = "quality"
           /\ Split(cur'.data)[2] \in DOMAIN pending_video_urls
           /\ Split(cur'.data)[2] \in DOMAIN lastLink
    /\ (pc # "audio_download" /\ pc' = "audio_download") =>
           /\ pc = "idle"
           /\ KindOf(cur'.data) = "download_audio"
           /\ Split(cur'.data)[2] \in DOMAIN pending_video_urls
           /\ Split(cur'.data)[2] \in DOMAIN lastLink
    /\ (attempts' # attempts /\ attempts' # <<>>) =>
           \/ pc = "audio_download"
           \/ pc = "video_download"
           \/ pc = "idle" /\ KindOf(cur'.data) = "download_video"

\* C17: a download_video callback starts no download and removes no entry, it
\* only shows the quality keyboard; a video download starts only on a quality
\* callback and an audio download only on a download_audio callback, each
\* only while the entry a link message created for the identifier is there.
\* (The keyboard is what is shown when no call to Telegram raised.)
C17_SelectionFlowOrdered == [][C17_Step]_vars

\* C17, its case: a download_video callback with a live entry showed the
\* quality keyboard and the entry is still there.
C17_Witness ==
    /\ pc = "done" /\ KindOf(cur.data) = "download_video"
    /\ cur.video_id \in DOMAIN pending_video_urls
    /\ Len(msgs) = 2 /\ msgs[2].text = "select_quality" /\ msgs[2].ok
    /\ Len(attempts) = 2

\* C18: once a chat has sent a link for an identifier, the pending entry of
\* that identifier is there with the chat's own link until that same chat
\* cancels it or has a download for it handled, whatever other chats do.
C18_SessionIsolated ==
    \A id \in DOMAIN sessions :
        /\ id \in DOMAIN pending_video_urls
        /\ pending_video_urls[id] = sessions[id]

\* C19: whenever a format of the selected tier is available, the format
\* download_youtube_video asks for is one that get_quality_label labels with
\* the selected tier, not with a higher one.
C19_RequestedFormatOfSelectedTier ==
    (/\ call.fn = "download_youtube_video"
     /\ result # NoResult
     /\ \E f \in call.available : get_quality_label(f).height = call.height)
        => get_quality_label(result.height).height = call.height

\* C20: get_quality_label gives the tiers its comments document: 1440p or
\* above for heights 1074..1610, 720p or 1080p for heights 536..806, 480p for
\* 358, 360p for 268, 240p for 178 and 144p for 128.
C20_LabelsAsDocumented ==
    (call.fn = "get_quality_label" /\ result # NoResult) =>
        /\ call.height \in 1074..1610 => result.height >= 1440
        /\ call.height \in 536..806 => result.height \in {720, 1080}
        /\ call.height = 358 => result.height = 480
        /\ call.height = 268 => result.height = 360
        /\ call.height = 178 => result.height = 240
        /\ call.height = 128 => result.height = 144

\* C21: the label and the download threshold agree: for every format height
\* h, the threshold height_map gives for the tier get_quality_label assigns
\* to h is at most h, so that the filter 'height>=threshold' admits the format.
C21_ThresholdAdmitsLabelledFormat ==
    (call.fn = "get_quality_label" /\ result # NoResult) =>
        height_map(result.height) <= call.height

\* A run that raised a general exception, or that completed with no MP3 file
\* there.
FailedWithoutMp3(a) ==
    a.kind = "Exception" \/ (a.kind = "returns" /\ ~a.mp3)

\* C22: in download_and_convert_youtube a strategy that is not the last and
\* that raises a general exception, or completes without an MP3 file, is
\* followed by the next strategy: either that one has been attempted or the
\* loop stands at it; the function returns None after such a failure only
\* when it was the last strategy's.
C22_GeneralFailureTriesNext ==
    (pc \in {"audio_download", "audio_deliver"}) =>
        /\ \A k \in 1..Len(attempts) :
               (FailedWithoutMp3(attempts[k]) /\ k < Len(download_strategies)) =>
                   \/ /\ Len(attempts) > k
                      /\ attempts[k + 1].name = download_strategies[k + 1]
                   \/ /\ Len(attempts) = k
                      /\ pc = "audio_download"
                      /\ cur.i = k + 1
        /\ (AudioReturnedNone /\ FailedWithoutMp3(attempts[Len(attempts)])) =>
               Len(attempts) = Len(download_strategies)

\* C22, its case: the first strategy raised a general exception, the second
\* was attempted and completed without an MP3 file, and None was returned.
C22_Witness ==
    /\ AudioReturnedNone
    /\ Len(attempts) = 2
    /\ attempts[1].kind = "Exception"
    /\ attempts[2].kind = "returns" /\ ~attempts[2].mp3

\* Configuration k raised, returned no info, or reported no video format with
\* a height.
NothingFound(o) ==
    \/ o.kind \in {"raise", "noinfo"}
    \/ \A j \in 1..Len(o.formats) :
           o.formats[j].vcodec = "none" \/ o.formats[j].height = 0

\* C23: get_available_qualities tries its configurations in the listed order
\* and returns the qualities of the first one that found a video format with
\* a height; it returns the default list only when every configuration
\* raised, returned no info, or found no such format.
C23_FirstConfigurationWithQualities ==
    (call.fn = "get_available_qualities" /\ result # NoResult) =>
        LET n == Len(result.tried)
        IN  /\ n \in 1..Len(QualityConfigs)
            /\ result.tried = SubSeq(QualityConfigs, 1, n)
            /\ \A j \in 1..(n - 1) : NothingFound(call.outcomes[j])
            /\ IF \E k \in 1..Len(QualityConfigs) : ~NothingFound(call.outcomes[k])
               THEN /\ ~NothingFound(call.outcomes[n])
                    /\ result.qualities = QualitiesOf(call.outcomes[n].formats)
                    /\ result.qualities # <<>>
               ELSE /\ n = Len(QualityConfigs)
                    /\ result.qualities = DefaultQualities

\* C23, its case: the first configuration raised, the second reported no
\* video format with a height, the third reported formats of 358 and 806.
C23_Witness ==
    /\ call.fn = "get_available_qualities" /\ result # NoResult
    /\ call.outcomes[1].kind = "raise"
    /\ call.outcomes[2] = [kind |-> "info",
                           formats |-> <<Format("none", 0), Format("avc1", 0)>>]
    /\ call.outcomes[3].kind = "info"
    /\ result.tried = QualityConfigs
    /\ result.qualities = <<Quality(1080, "1080p HD"), Quality(480, "480p")>>

\* C24: the list get_available_qualities returns is strictly descending by
\* tier height and holds each label at most once, and the quality keyboard
\* built from it has one button per tier, in that order, and then one Back
\* button.
C24_DescendingDistinctTiers ==
    (call.fn = "get_available_qualities" /\ result # NoResult) =>
        LET qualities == result.qualities
            keyboard == result.keyboard
            n == Len(qualities)
        IN  /\ \A i, j \in 1..n :
                   i < j => /\ qualities[i].height > qualities[j].height
                            /\ qualities[i].label # qualities[j].label
            /\ Len(keyboard) = n + 1
            /\ \A k \in 1..n :
                   /\ keyboard[k] = QualityData(<<"a">>, qualities[k].height)
                   /\ ~StartsWith(keyboard[k], "back_to_format")
            /\ keyboard[n + 1] = CallbackData("back_to_format", <<"a">>)

\* C24, its case: formats of ten heights, lowest first, several of them in
\* the same tier, gave six tiers.
C24_Witness ==
    /\ call.fn = "get_available_qualities" /\ result # NoResult
    /\ call.outcomes[1].formats = Ascending(ActualHeights \cup OtherHeights)
    /\ [k \in 1..Len(result.qualities) |-> result.qualities[k].height]
           = <<2160, 1080, 480, 360, 240, 144>>
    /\ Len(result.keyboard) = 7

\* C25: get_available_qualities never returns an empty list: a download_video
\* callback with a live entry never shows the keyboard of the handler's own
\* fallback branch, and the keyboard it shows has at least one quality
\* button.  (The keyboard is what is shown when no call to Telegram failed.)
C25_QualitiesNeverEmpty ==
    (pc = "done" /\ KindOf(cur.data) = "download_video") =>
        /\ \A k \in 1..Len(msgs) : msgs[k].text # "select_quality_undetected"
        /\ (cur.url # None /\ \A k \in 1..Len(msgs) : msgs[k].ok) =>
               /\ Len(msgs) = 2
               /\ msgs[2].text = "select_quality"
               /\ Len(msgs[2].kb) >= 2
               /\ KindOf(msgs[2].kb[1]) = "quality"
               /\ KindOf(msgs[2].kb[Len(msgs[2].kb)]) = "back_to_format"

\* C25, its case: every configuration raised or returned no info, and the
\* keyboard of the default list was shown.
C25_Witness ==
    /\ pc = "done" /\ KindOf(cur.data) = "download_video" /\ cur.url # None
    /\ Len(attempts) = 3
    /\ \A k \in 1..3 : attempts[k].kind \in {"raise", "noinfo"}
    /\ Len(msgs) = 2 /\ msgs[2].ok
    /\ msgs[2].kb = get_video_quality_keyboard(cur.video_id, DefaultQualities)

\* The callbacks that need a live entry, by the first piece of their data.
SessionKinds == {"download_audio", "download_video", "quality", "back_to_format"}

C26_Step ==
    \A id \in VideoIds :
        \* the cancel callback itself, once query.answer() went through
        /\ (/\ pc = "idle" /\ pc' # "idle"
            /\ KindOf(cur'.data) = "cancel" /\ Split(cur'.data)[2] = id
            /\ ~cur'.raised)
           => /\ pc' = "done"
              /\ id \notin DOMAIN pending_video_urls'
              /\ \A other \in VideoIds \ {id} :
                     /\ other \in DOMAIN pending_video_urls'
                            <=> other \in DOMAIN pending_video_urls
                     /\ other \in DOMAIN pending_video_urls =>
                            pending_video_urls'[other] = pending_video_urls[other]
              /\ msgs' # <<>>
              /\ msgs'[1].how = "edit" /\ msgs'[1].text = "welcome"
              /\ msgs'[1].kb = get_info_inline_keyboard
              /\ \A k \in 2..Len(msgs') : msgs'[k].text = "button_error"
        \* an absent entry comes back only with a link message for the identifier
        /\ (id \notin DOMAIN pending_video_urls /\ id \in DOMAIN pending_video_urls')
           => /\ pc = "idle"
              /\ ReSearch(cur'.data).found
              /\ ReSearch(cur'.data).group1 = id
        \* while it is absent, the callbacks that need it are told so
        /\ (/\ pc = "idle" /\ pc' # "idle"
            /\ KindOf(cur'.data) \in SessionKinds /\ Split(cur'.data)[2] = id
            /\ id \notin DOMAIN pending_video_urls
            /\ ~cur'.raised)
           => /\ pc' = "done"
              /\ msgs' # <<>>
              /\ msgs'[1].how = "edit" /\ msgs'[1].text = "session_expired"
              /\ \A k \in 2..Len(msgs') : msgs'[k].text = "button_error"
              /\ id \notin DOMAIN pending_video_urls'

OneEntryRemoved(before, after, id) ==
    /\ id \in DOMAIN before
    /\ DOMAIN after = DOMAIN before \ {id}
    /\ \A k \in DOMAIN after : after[k] = before[k]

\* Exactly the entry of id is new or rewritten, the others are as before.
OneEntryWritten(before, after, id) ==
    /\ DOMAIN after = DOMAIN before \cup {id}
    /\ \A k \in DOMAIN before \ {id} : after[k] = before[k]

C27_Step ==
    /\ pending_video_urls' # pending_video_urls =>
           \/ /\ pc = "idle"
              /\ ReSearch(cur'.data).found
              /\ OneEntryWritten(pending_video_urls, pending_video_urls',
                                 ReSearch(cur'.data).group1)
           \/ /\ pc = "idle"
              /\ KindOf(cur'.data) = "cancel"
              /\ OneEntryRemoved(pending_video_urls, pending_video_urls',
                                 Split(cur'.data)[2])
           \/ /\ pc = "finally" /\ pc' = "done"
              /\ KindOf(cur.data) \in {"download_audio", "quality"}
              /\ OneEntryRemoved(pending_video_urls, pending_video_urls',
                                 Split(cur.data)[2])
    /\ (/\ pc = "idle" /\ pc' # "idle"
        /\ \/ cur'.data = <<"/start">>
           \/ ~ReSearch(cur'.data).found /\ KindOf(cur'.data) \notin {"cancel", "download_audio", "quality"}
           \/ \E k \in 1..Len(msgs') : msgs'[k].text = "session_expired")
       => pending_video_urls' = pending_video_urls

\* C27: pending_video_urls is changed only by a link message, which adds or
\* overwrites one entry, by a cancel callback and by the end of a
\* download_audio or quality callback, each of which removes one entry; the
\* /start command, messages without a link, the show_link_instructions,
\* download_video and back_to_format callbacks, unknown callback data and
\* every 'Session expired' reply leave it as it is.
C27_OnlyLinkCancelDownloadWrite == [][C27_Step]_vars

\* C27, its case: the end of a quality callback has removed the entry of its
\* identifier and left another one in place.
C27_Witness ==
    /\ pc = "done" /\ KindOf(cur.data) = "quality" /\ cur.url # None
    /\ ~cur.raised
    /\ cur.video_id \notin DOMAIN pending_video_urls
    /\ pending_video_urls # <<>>

SuccessConfirmations == {"audio_sent", "large_audio_sent", "video_sent"}

FailureNotices ==
    {"error_sending_audio", "failed_large_audio", "error_sending_video", "failed_video",
     "couldnt_process", "couldnt_download", "video_too_large", "error_occurred",
     "button_error"}

\* The file of this download reached the user.
Delivered == \E t \in 1..Len(transports) : transports[t].ok

\* C28: the terminal message of a download agrees with what happened: a
\* success confirmation is sent only after the chosen transport completed the
\* upload, and no failure or error notice reaches the user for a download
\* whose file was delivered.
C28_TerminalMessageAgrees ==
    (pc \in {"finally", "done"} /\ RunsDownload) =>
        /\ (\E k \in 1..Len(msgs) : msgs[k].text \in SuccessConfirmations) => Delivered
        /\ Delivered =>
               \A k \in 1..Len(msgs) :
                   ~(msgs[k].text \in FailureNotices /\ msgs[k].ok)

\* Every new message the handler sent to the chat went through.
SendingWorks == \A k \in 1..Len(msgs) : msgs[k].how = "send" => msgs[k].ok

\* Something other than the 'please wait' status is on the user's screen: a
\* confirmation or a notice that went through.
TerminalOutcomeShown ==
    \E k \in 1..Len(msgs) :
        /\ msgs[k].ok
        /\ msgs[k].text \in SuccessConfirmations \cup FailureNotices

\* C29: provided sending new messages to the chat works, a download_audio or
\* quality callback accepted for a live entry ends with a terminal outcome the
\* user can see: the file with a success confirmation, or a failure notice.
C29_TerminalOutcomeVisible ==
    (pc = "done" /\ RunsDownload /\ SendingWorks) =>
        /\ TerminalOutcomeShown
        /\ Delivered => \E k \in 1..Len(msgs) :
                            msgs[k].ok /\ msgs[k].text \in SuccessConfirmations

\* C30: downloads do not overlap on their shared paths: at most one request
\* is in its handler at a time, so the temporary file of a download in
\* progress is its own and still there, and the file a request is sending has
\* not been removed by the cleanup of another.
C30_DownloadsDoNotOverlap ==
    /\ \A r1, r2 \in Requests :
           (InHandler(r1) /\ InHandler(r2)) => r1 = r2
    /\ \A r \in Requests :
           /\ requests[r] = "downloading" => TempPath(r) \in tmpfiles
           /\ requests[r] = "sending" => FinalPath(r) \in tmpfiles

\* C30, its case: a second audio request for the identifier is sending its
\* file after the first one returned, while a video request waits in the queue.
C30_Witness ==
    /\ requests[1] = "returned"
    /\ requests[3] = "sending"
    /\ requests[2] = "queued"
    /\ FinalPath(3) \in tmpfiles

====
